---- MODULE Spec2Model ----
(***************************************************************************)
(* Task orchestration core of Miyabi: CoordinatorAgent (build_plan,        *)
(* orchestrate, run), AgentRegistry (new, run_coordinator) and the outcome *)
(* constructors of miyabi-agents, over the data types of miyabi-types;     *)
(* and the commands of miyabi-cli with the configuration file and the      *)
(* action log of miyabi-core.                                              *)
(*                                                                         *)
(* Strings are TLA+ strings.  A Uuid is modelled by its rank in the order  *)
(* in which the process generated it (v4 UUIDs are taken as collision      *)
(* free).  An anyhow::Error is its chain of messages, outermost context    *)
(* first.  Utc::now() reads a clock that counts the readings; file         *)
(* permission bits are not modelled.                                       *)
(***************************************************************************)
EXTENDS Integers, Sequences, FiniteSets, TLC

\* ---------------------------------------------------------------- bounds
MaxCalls == 2

\* ------------------------------------------------------------ data types
AgentKind == {"Coordinator", "CodeGen", "Review", "Test", "Deploy", "Issue"}

TaskPriority == {"Critical", "High", "Medium", "Low"}

TaskPriority_default == "Medium"

WorkItemStatus == {"Pending", "InProgress", "Completed", "Failed"}

\* Option<T>: None is the empty sequence, Some(v) the one-element sequence.
None == << >>

Some(v) == << v >>

\* Result<T>: Ok(v) or Err(e); e is an anyhow error (chain of messages).
Ok(v) == [tag |-> "Ok", value |-> v, error |-> << >>]

Err(e) == [tag |-> "Err", value |-> << >>, error |-> e]

Pending == [tag |-> "Pending", value |-> << >>, error |-> << >>]

anyhow(msg) == << msg >>

\* ------------------------------------------------------- input universes
Threads == {1, 2}

Titles == {"Test feature", "analyze", "it's {}"}

Descriptions == {"Implement test feature", "codegen"}

IssueNumbers == {None, Some(42)}

Environments == {<< >>, <<"project", "device">>}

ExecutorVariants == {"CoordinatorAgent", "AgentExecutor"}

Summaries == {"partial result"}

\* Every input of the universes above.
AllInputs ==
    [titles       |-> Titles,
     descriptions |-> Descriptions,
     issues       |-> IssueNumbers,
     statuses     |-> WorkItemStatus,
     environments |-> Environments]

\* The inputs of two threads that call with the status InProgress, as the
\* commands of the CLI do; titles, own tasks and environments vary.
CommandInputs ==
    [titles       |-> {"Test feature", "it's {}"},
     descriptions |-> {"Implement test feature"},
     issues       |-> {Some(42)},
     statuses     |-> {"InProgress"},
     environments |-> Environments]

RunErrors == {anyhow("backend unavailable")}

\* ------------------------------------------------------------- miyabi-types
Uuid_new_v4(n) == n + 1

AgentTask_new(title, description, agent, n) ==
    [id          |-> Uuid_new_v4(n),
     title       |-> title,
     description |-> description,
     agent       |-> agent,
     priority    |-> TaskPriority_default]

\* format!("Review the problem statement for '{}'", title)
format_description(title) == "Review the problem statement for '" \o title \o "'"

\* ------------------------------------------------------------- execution.rs
\* Variant of success_outcome: the outcome carries the nil UUID.
success_outcome_nil_id(task, summary) ==
    [task_id   |-> 0,
     success   |-> TRUE,
     summary   |-> summary,
     artifacts |-> << >>]

success_outcome(task, summary) ==
    [task_id   |-> task.id,
     success   |-> TRUE,
     summary   |-> summary,
     artifacts |-> << >>]

failure_outcome(task, summary) ==
    [task_id   |-> task.id,
     success   |-> FALSE,
     summary   |-> summary,
     artifacts |-> << >>]

ExecutionReport(task, outcome) == [task |-> task, outcome |-> outcome]

\* ------------------------------------------------------------ coordinator.rs
CoordinatorAgent_kind == "Coordinator"

CoordinatorAgent_run(task, ctx) ==
    Ok(success_outcome(task, "Task queued for specialist agents (simulated)"))

\* Variant of build_plan: the first task keeps the placeholder's
\* default priority.
build_plan_default_priority(work_item, n) ==
    << [AgentTask_new("analyze", "analyze", "Issue", n) EXCEPT
            !.agent = "Issue",
            !.title = "Analyze issue context",
            !.description = format_description(work_item.title)],
       [AgentTask_new("codegen", "codegen", "CodeGen", n + 1) EXCEPT
            !.agent = "CodeGen",
            !.title = "Implement solution",
            !.description = "Generate code changes to satisfy the requirements",
            !.priority = "High"],
       [AgentTask_new("test", "test", "Test", n + 2) EXCEPT
            !.agent = "Test",
            !.title = "Run verification suite",
            !.description = "Execute unit and integration tests",
            !.priority = "Medium"],
       [AgentTask_new("review", "review", "Review", n + 3) EXCEPT
            !.agent = "Review",
            !.title = "Review code changes",
            !.description = "Perform automated review of generated code",
            !.priority = "Medium"] >>

\* Variant of build_plan: one placeholder is built and reused for
\* the four tasks.
build_plan_shared_placeholder(work_item, n) ==
    << [AgentTask_new("analyze", "analyze", "Issue", n) EXCEPT
            !.agent = "Issue",
            !.title = "Analyze issue context",
            !.description = format_description(work_item.title),
            !.priority = "High"],
       [AgentTask_new("codegen", "codegen", "CodeGen", n) EXCEPT
            !.agent = "CodeGen",
            !.title = "Implement solution",
            !.description = "Generate code changes to satisfy the requirements",
            !.priority = "High"],
       [AgentTask_new("test", "test", "Test", n) EXCEPT
            !.agent = "Test",
            !.title = "Run verification suite",
            !.description = "Execute unit and integration tests",
            !.priority = "Medium"],
       [AgentTask_new("review", "review", "Review", n) EXCEPT
            !.agent = "Review",
            !.title = "Review code changes",
            !.description = "Perform automated review of generated code",
            !.priority = "Medium"] >>

\* Variant of build_plan: the last task keeps the placeholder's title.
build_plan_keep_title(work_item, n) ==
    << [AgentTask_new("analyze", "analyze", "Issue", n) EXCEPT
            !.agent = "Issue",
            !.title = "Analyze issue context",
            !.description = format_description(work_item.title),
            !.priority = "High"],
       [AgentTask_new("codegen", "codegen", "CodeGen", n + 1) EXCEPT
            !.agent = "CodeGen",
            !.title = "Implement solution",
            !.description = "Generate code changes to satisfy the requirements",
            !.priority = "High"],
       [AgentTask_new("test", "test", "Test", n + 2) EXCEPT
            !.agent = "Test",
            !.title = "Run verification suite",
            !.description = "Execute unit and integration tests",
            !.priority = "Medium"],
       [AgentTask_new("review", "review", "Review", n + 3) EXCEPT
            !.agent = "Review",
            !.description = "Perform automated review of generated code",
            !.priority = "Medium"] >>

\* Variant of build_plan: the first description interpolates the
\* work item's description instead of its title.
build_plan_use_description(work_item, n) ==
    << [AgentTask_new("analyze", "analyze", "Issue", n) EXCEPT
            !.agent = "Issue",
            !.title = "Analyze issue context",
            !.description = format_description(work_item.description),
            !.priority = "High"],
       [AgentTask_new("codegen", "codegen", "CodeGen", n + 1) EXCEPT
            !.agent = "CodeGen",
            !.title = "Implement solution",
            !.description = "Generate code changes to satisfy the requirements",
            !.priority = "High"],
       [AgentTask_new("test", "test", "Test", n + 2) EXCEPT
            !.agent = "Test",
            !.title = "Run verification suite",
            !.description = "Execute unit and integration tests",
            !.priority = "Medium"],
       [AgentTask_new("review", "review", "Review", n + 3) EXCEPT
            !.agent = "Review",
            !.title = "Review code changes",
            !.description = "Perform automated review of generated code",
            !.priority = "Medium"] >>

\* Variant of build_plan: the plan starts from the work item's own tasks.
build_plan_extends_tasks(work_item, n) ==
    work_item.tasks \o
    << [AgentTask_new("analyze", "analyze", "Issue", n) EXCEPT
            !.agent = "Issue",
            !.title = "Analyze issue context",
            !.description = format_description(work_item.title),
            !.priority = "High"],
       [AgentTask_new("codegen", "codegen", "CodeGen", n + 1) EXCEPT
            !.agent = "CodeGen",
            !.title = "Implement solution",
            !.description = "Generate code changes to satisfy the requirements",
            !.priority = "High"],
       [AgentTask_new("test", "test", "Test", n + 2) EXCEPT
            !.agent = "Test",
            !.title = "Run verification suite",
            !.description = "Execute unit and integration tests",
            !.priority = "Medium"],
       [AgentTask_new("review", "review", "Review", n + 3) EXCEPT
            !.agent = "Review",
            !.title = "Review code changes",
            !.description = "Perform automated review of generated code",
            !.priority = "Medium"] >>

\* n is the number of UUIDs the process has generated so far; each
\* AgentTask::new draws the next one.  The struct-update syntax keeps the id
\* of the placeholder and replaces the four named fields.
build_plan(work_item, n) ==
    << [AgentTask_new("analyze", "analyze", "Issue", n) EXCEPT
            !.agent = "Issue",
            !.title = "Analyze issue context",
            !.description = format_description(work_item.title),
            !.priority = "High"],
       [AgentTask_new("codegen", "codegen", "CodeGen", n + 1) EXCEPT
            !.agent = "CodeGen",
            !.title = "Implement solution",
            !.description = "Generate code changes to satisfy the requirements",
            !.priority = "High"],
       [AgentTask_new("test", "test", "Test", n + 2) EXCEPT
            !.agent = "Test",
            !.title = "Run verification suite",
            !.description = "Execute unit and integration tests",
            !.priority = "Medium"],
       [AgentTask_new("review", "review", "Review", n + 3) EXCEPT
            !.agent = "Review",
            !.title = "Review code changes",
            !.description = "Perform automated review of generated code",
            !.priority = "Medium"] >>

\* Variant of orchestrate_executor: the task is routed by its agent field.
orchestrate_executor_by_agent(task) == task.agent

\* self.run(&task, ctx): the receiver is the coordinator itself, whatever
\* task.agent says; the result is the kind() of the executor that runs it.
orchestrate_executor(task) == CoordinatorAgent_kind

\* Variant of orchestrate_next: the iterator steps over one task.
orchestrate_next_skip(i) == i + 2

\* `for task in plan`: the iterator moves to the task after the one just run.
orchestrate_next(i) == i + 1

\* Variant of orchestrate_iteration: the report is inserted in front.
orchestrate_iteration_prepend(reports, task, r) ==
    IF r.tag = "Ok"
    THEN [returned |-> FALSE,
          reports  |-> << ExecutionReport(task, r.value) >> \o reports,
          result   |-> Pending]
    ELSE [returned |-> TRUE,
          reports  |-> << >>,
          result   |-> Err(r.error)]

\* Variant of orchestrate_iteration: a failed run ends the call with the
\* reports collected so far.
orchestrate_iteration_partial(reports, task, r) ==
    IF r.tag = "Ok"
    THEN [returned |-> FALSE,
          reports  |-> Append(reports, ExecutionReport(task, r.value)),
          result   |-> Pending]
    ELSE [returned |-> TRUE,
          reports  |-> reports,
          result   |-> Ok(reports)]

\* Variant of orchestrate_iteration: the error is wrapped with the title of
\* the task that failed (.with_context).
orchestrate_iteration_with_context(reports, task, r) ==
    IF r.tag = "Ok"
    THEN [returned |-> FALSE,
          reports  |-> Append(reports, ExecutionReport(task, r.value)),
          result   |-> Pending]
    ELSE [returned |-> TRUE,
          reports  |-> << >>,
          result   |-> Err(<< "task failed: " \o task.title >> \o r.error)]

\* One pass through the body of the for loop: `?` returns the error of a
\* failed run at once (the local vector of reports is dropped), otherwise
\* the report is pushed after the reports collected so far.
orchestrate_iteration(reports, task, r) ==
    IF r.tag = "Ok"
    THEN [returned |-> FALSE,
          reports  |-> Append(reports, ExecutionReport(task, r.value)),
          result   |-> Pending]
    ELSE [returned |-> TRUE,
          reports  |-> << >>,
          result   |-> Err(r.error)]

\* ---------------------------------------------------------------- registry.rs
BuiltInAgent == {"Coordinator"}

AgentRegistry_new == [k \in {"Coordinator"} |-> "Coordinator"]

\* A registry in which nothing was inserted (no constructor of the crate
\* builds it; run_coordinator nevertheless handles it).
AgentRegistry_unregistered == [k \in {} |-> "Coordinator"]

\* Variant of run_coordinator_lookup: the slot is taken without a check.
run_coordinator_lookup_unchecked(agents) == Ok(<< >>)

\* The lookup and the `if let` of run_coordinator: Ok(()) stands for
\* "forward to coordinator.orchestrate".
run_coordinator_lookup(agents) ==
    IF "Coordinator" \notin DOMAIN agents
    THEN Err(anyhow("Coordinator agent not registered"))
    ELSE IF agents["Coordinator"] = "Coordinator"
         THEN Ok(<< >>)
         ELSE Err(anyhow("Coordinator agent not available"))

\* ------------------------------------------------------- executor contract
\* The results `run` may produce.  CoordinatorAgent is the only
\* implementation in the crate; "AgentExecutor" stands for an arbitrary
\* implementation of the trait method (Result<AgentOutcome>), whose outcomes
\* are built by the two constructors of execution.rs.
AgentExecutor_run(variant, task, ctx) ==
    IF variant = "CoordinatorAgent"
    THEN {CoordinatorAgent_run(task, ctx)}
    ELSE {Ok(success_outcome(task, s)) : s \in Summaries}
         \cup {Ok(failure_outcome(task, s)) : s \in Summaries}
         \cup {Err(e) : e \in RunErrors}

\* ------------------------------------------------------------------ main.rs
WorkItem(issue_number, title, description, status, tasks) ==
    [issue_number |-> issue_number,
     title        |-> title,
     description  |-> description,
     status       |-> status,
     tasks        |-> tasks]

\* The task `agent run` places in work_item.tasks.
cmd_agent_task(title, description, n) ==
    [id          |-> Uuid_new_v4(n),
     title       |-> title,
     description |-> description,
     agent       |-> "Coordinator",
     priority    |-> "Medium"]

AgentContext(environment) == [environment |-> environment]

\* ------------------------------------------------------------- filesystem.rs
\* The project directory: the directories that exist under the root,
\* config.toml (None or Some(text)) and the lines of actions.log (None
\* while the file does not exist).  Permission bits are not modelled.  A
\* fault is the number of the system call of an operation that fails, 0
\* when none does.
DirConfig == ".miyabi"

DirLogs == ".miyabi/logs"

DirReports == ".miyabi/reports"

EmptyProject == [dirs |-> {}, config_file |-> None, actions_log |-> None]

\* create_dir_all creates the missing ancestors as well.
create_dir_all(fs, path) ==
    [fs EXCEPT !.dirs = @ \cup {DirConfig, path}]

ensure_dir_with_permissions(fs, path, failed) ==
    IF failed
    THEN [fs |-> fs, result |-> Err(<<"Failed to create directory: " \o path>>)]
    ELSE [fs |-> create_dir_all(fs, path), result |-> Ok(<< >>)]

\* fault 1, 2, 3: the first, second, third directory cannot be created.
ProjectPaths_ensure_structure(fs, fault) ==
    LET a == ensure_dir_with_permissions(fs, DirConfig, fault = 1)
        b == ensure_dir_with_permissions(a.fs, DirLogs, fault = 2)
        c == ensure_dir_with_permissions(b.fs, DirReports, fault = 3)
    IN  IF a.result.tag = "Err" THEN a
        ELSE IF b.result.tag = "Err" THEN b
        ELSE c

\* std::fs::write fails when the parent directory is missing.
ensure_file_with_permissions(fs, content, failed) ==
    IF failed \/ DirConfig \notin fs.dirs
    THEN [fs |-> fs, result |-> Err(<<"Failed to write file: config.toml">>)]
    ELSE [fs |-> [fs EXCEPT !.config_file = Some(content)], result |-> Ok(<< >>)]

\* ----------------------------------------------------------------- config.rs
Digits == <<"0", "1", "2", "3", "4", "5", "6", "7", "8", "9">>

Instants == 0..9

\* DateTime<Utc> as text, and back.
to_rfc3339(t) == "1970-01-01T00:00:0" \o Digits[t + 1] \o "+00:00"

parse_rfc3339(text) ==
    IF \E t \in Instants : to_rfc3339(t) = text
    THEN Some(CHOOSE t \in Instants : to_rfc3339(t) = text)
    ELSE None

Hostname == "devbox"

MiyabiConfig_default(now) ==
    [project |-> [name              |-> "miyabi-project",
                  repository        |-> None,
                  created_at        |-> now,
                  device_identifier |-> Hostname],
     github_token |-> None]

\* Variant of toml_to_string_pretty: a None field is written as the empty
\* string.
toml_to_string_pretty_empty_none(config) ==
    << <<"project.name", config.project.name>>,
       <<"project.repository",
         IF config.project.repository = None THEN ""
         ELSE config.project.repository[1]>>,
       <<"project.created_at", to_rfc3339(config.project.created_at)>>,
       <<"project.device_identifier", config.project.device_identifier>>,
       <<"github_token",
         IF config.github_token = None THEN "" ELSE config.github_token[1]>> >>

\* toml::to_string_pretty: one key/value line per field, in declaration
\* order; a None field is left out.
toml_to_string_pretty(config) ==
    << <<"project.name", config.project.name>> >>
    \o (IF config.project.repository = None THEN << >>
        ELSE << <<"project.repository", config.project.repository[1]>> >>)
    \o << <<"project.created_at", to_rfc3339(config.project.created_at)>>,
          <<"project.device_identifier", config.project.device_identifier>> >>
    \o (IF config.github_token = None THEN << >>
        ELSE << <<"github_token", config.github_token[1]>> >>)

TomlKeys(raw) == {raw[i][1] : i \in 1..Len(raw)}

TomlGet(raw, key) == raw[CHOOSE i \in 1..Len(raw) : raw[i][1] = key][2]

TomlOpt(raw, key) ==
    IF key \in TomlKeys(raw) THEN Some(TomlGet(raw, key)) ELSE None

\* toml::from_str: the three plain fields are required, the Option fields
\* default to None, created_at must parse as a date.
toml_from_str(raw) ==
    IF /\ {"project.name", "project.created_at", "project.device_identifier"}
             \subseteq TomlKeys(raw)
       /\ parse_rfc3339(TomlGet(raw, "project.created_at")) # None
    THEN Ok([project |->
                [name              |-> TomlGet(raw, "project.name"),
                 repository        |-> TomlOpt(raw, "project.repository"),
                 created_at        |->
                     parse_rfc3339(TomlGet(raw, "project.created_at"))[1],
                 device_identifier |-> TomlGet(raw, "project.device_identifier")],
             github_token |-> TomlOpt(raw, "github_token")])
    ELSE Err(<<"failed to parse config.toml">>)

\* fault 1..3: ensure_structure fails; fault 4: the file cannot be written.
MiyabiConfigManager_init_with_defaults(fs, now, fault) ==
    LET made    == ProjectPaths_ensure_structure(fs, fault)
        config  == MiyabiConfig_default(now)
        written == ensure_file_with_permissions(
                       made.fs, toml_to_string_pretty(config), fault = 4)
    IN  IF made.result.tag = "Err" THEN made
        ELSE IF written.result.tag = "Err" THEN written
        ELSE [fs |-> written.fs, result |-> Ok(config)]

MiyabiConfigManager_save(fs, config, fault) ==
    LET made    == ProjectPaths_ensure_structure(fs, fault)
        written == ensure_file_with_permissions(
                       made.fs, toml_to_string_pretty(config), fault = 4)
    IN  IF made.result.tag = "Err" THEN made
        ELSE written

\* fault 5: config.toml exists but cannot be read.
MiyabiConfigManager_load_or_init(fs, now, fault) ==
    IF fs.config_file # None
    THEN IF fault = 5
         THEN [fs |-> fs, result |-> Err(<<"failed to read config.toml">>)]
         ELSE [fs |-> fs, result |-> toml_from_str(fs.config_file[1])]
    ELSE MiyabiConfigManager_init_with_defaults(fs, now, fault)

\* fault 6: the logs directory cannot be created.
MiyabiConfigManager_logs_dir(fs, fault) ==
    ensure_dir_with_permissions(fs, DirLogs, fault = 6)

\* ---------------------------------------------------------------- logging.rs
LowerCase == "abcdefghijklmnopqrstuvwxyz"

UpperCase == "ABCDEFGHIJKLMNOPQRSTUVWXYZ"

char_to_uppercase(c) ==
    IF \E i \in 1..26 : SubSeq(LowerCase, i, i) = c
    THEN SubSeq(UpperCase,
                CHOOSE i \in 1..26 : SubSeq(LowerCase, i, i) = c,
                CHOOSE i \in 1..26 : SubSeq(LowerCase, i, i) = c)
    ELSE c

RECURSIVE to_uppercase(_)
to_uppercase(text) ==
    IF text = "" THEN ""
    ELSE char_to_uppercase(SubSeq(text, 1, 1))
             \o to_uppercase(SubSeq(text, 2, Len(text)))

info(action, detail, now) ==
    [timestamp |-> to_rfc3339(now),
     action    |-> to_uppercase(action),
     detail    |-> detail]

\* serde_json::to_string(&entry); the texts of the model hold no character
\* that JSON escapes.
serde_json_to_string(entry) ==
    "{\"timestamp\":\"" \o entry.timestamp
        \o "\",\"action\":\"" \o entry.action
        \o "\",\"detail\":"
        \o (IF entry.detail = None THEN "null"
            ELSE "\"" \o entry.detail[1] \o "\"")
        \o "}"

\* Variant of log_action: the file is opened with truncate instead of
\* append.
log_action_truncate(fs, entry, fault) ==
    IF fault = 7
    THEN [fs |-> fs, result |-> Err(<<"failed to create the logs directory">>)]
    ELSE LET made == create_dir_all(fs, DirLogs)
         IN  IF fault = 8
             THEN [fs |-> made,
                   result |-> Err(<<"failed to open log file actions.log">>)]
             ELSE [fs |-> [made EXCEPT !.actions_log =
                              Some(<< serde_json_to_string(entry) >>)],
                   result |-> Ok(<< >>)]

\* fault 7: create_dir_all fails; fault 8: actions.log cannot be opened.
\* The file is opened in append mode and one line is written at its end.
log_action(fs, entry, fault) ==
    IF fault = 7
    THEN [fs |-> fs, result |-> Err(<<"failed to create the logs directory">>)]
    ELSE LET made == create_dir_all(fs, DirLogs)
         IN  IF fault = 8
             THEN [fs |-> made,
                   result |-> Err(<<"failed to open log file actions.log">>)]
             ELSE [fs |-> [made EXCEPT !.actions_log =
                              Some((IF @ = None THEN << >> ELSE @[1])
                                   \o << serde_json_to_string(entry) >>)],
                   result |-> Ok(<< >>)]

\* ------------------------------------------------------- main.rs (commands)
Cwd == "/work"

\* The {} of an integer.
RECURSIVE u64_to_string(_)
u64_to_string(n) ==
    IF n < 10 THEN Digits[n + 1]
    ELSE u64_to_string(n \div 10) \o Digits[(n % 10) + 1]

\* The {:?} of an Option<u64>.
fmt_debug_issue(issue) ==
    IF issue = None THEN "None" ELSE "Some(" \o u64_to_string(issue[1]) \o ")"

\* The environment the commands build from the configuration.
cmd_environment(cfg) ==
    << <<"project", cfg.project.name>>,
       <<"device", cfg.project.device_identifier>> >>

\* The two lines printed for each report, in the order of the reports.
cmd_report_lines(reps) ==
    [k \in 1..(2 * Len(reps)) |->
        LET report == reps[(k + 1) \div 2]
        IN  IF k % 2 = 1
            THEN " - [" \o report.task.agent \o "] " \o report.task.title
            ELSE "   " \o report.outcome.summary]

\* format!("Issue {:?} handled with {} tasks", issue, reports.len())
cmd_work_on_detail(item, reps) ==
    "Issue " \o fmt_debug_issue(item.issue_number) \o " handled with "
        \o u64_to_string(Len(reps)) \o " tasks"

\* The configuration cmd_init saves.
cmd_init_config(name, repository, device, now) ==
    LET base == MiyabiConfig_default(now)
    IN  [base EXCEPT !.project.name = name,
                     !.project.repository = repository,
                     !.project.device_identifier =
                         IF device = None THEN @ ELSE device[1]]

\* -------------------------------------------------------------------- state
VARIABLES
    registry,    \* AgentRegistry.agents
    executor,    \* the implementation of run behind the coordinator
    threads,     \* the threads that make calls
    universe,    \* the inputs callers choose from
    uuids,       \* number of UUIDs generated by the process so far
    calls,       \* number of calls started so far
    created,     \* ids of all tasks created so far, in creation order
    prev,        \* title and plan of the call that returned last
    pc,          \* per thread: position in run_coordinator / orchestrate
    work_item,   \* per thread: the caller's work item
    ctx,         \* per thread: the caller's context
    plan,        \* per thread: let plan
    idx,         \* per thread: position of the for loop in plan
    reports,     \* per thread: let mut reports
    result,      \* per thread: what run_coordinator returned
    ran,         \* per thread: the calls of run made, in order
    lookups,     \* per thread: the keys looked up in the registry
    raised,      \* per thread: the error a run returned, if one did
    fs,          \* the project directory on disk
    clock,       \* Utc::now()
    logged,      \* the entries log_action has written, in call order
    command,     \* per thread: the command of the CLI that is running
    config,      \* per thread: the command's let config, and where from
    presented,   \* per thread: the report lines printed so far
    exit         \* per thread: what the command returned

\* The state of the command line program around a call of run_coordinator.
cli == <<fs, clock, logged, command, config, presented, exit>>

vars == <<registry, executor, threads, universe, uuids, calls, created, prev, pc,
          work_item, ctx, plan, idx, reports, result, ran, lookups, raised,
          fs, clock, logged, command, config, presented, exit>>

NoConfig == [tag |-> "none", value |-> << >>]

NoItem == WorkItem(None, "", "", "Pending", << >>)

NoPrev == [set |-> FALSE, title |-> "", plan |-> << >>]

InitCommon ==
    /\ uuids = 0
    /\ calls = 0
    /\ created = << >>
    /\ prev = NoPrev
    /\ pc = [p \in Threads |-> "idle"]
    /\ work_item = [p \in Threads |-> NoItem]
    /\ ctx = [p \in Threads |-> AgentContext(<< >>)]
    /\ plan = [p \in Threads |-> << >>]
    /\ idx = [p \in Threads |-> 1]
    /\ reports = [p \in Threads |-> << >>]
    /\ result = [p \in Threads |-> Pending]
    /\ ran = [p \in Threads |-> << >>]
    /\ lookups = [p \in Threads |-> << >>]
    /\ raised = [p \in Threads |-> << >>]
    /\ clock = 0
    /\ logged = << >>
    /\ command = [p \in Threads |-> "none"]
    /\ config = [p \in Threads |-> NoConfig]
    /\ presented = [p \in Threads |-> << >>]
    /\ exit = [p \in Threads |-> Pending]

\* The program: one thread, the registry built by AgentRegistry::new, run
\* implemented by CoordinatorAgent.
Init ==
    /\ registry = AgentRegistry_new
    /\ executor = "CoordinatorAgent"
    /\ threads = {1}
    /\ universe = AllInputs
    /\ fs = EmptyProject
    /\ InitCommon

\* ------------------------------------------------------------------ actions
\* The caller builds a work item and a context and calls run_coordinator.
Call(p) ==
    /\ p \in threads
    /\ pc[p] = "idle"
    /\ calls < MaxCalls
    /\ \E title \in universe.titles,
          description \in universe.descriptions,
          issue \in universe.issues, status \in universe.statuses,
          withTask \in BOOLEAN, env \in universe.environments :
          LET tasks == IF withTask
                       THEN << cmd_agent_task(title, description, uuids) >>
                       ELSE << >>
          IN  /\ work_item' = [work_item EXCEPT ![p] =
                     WorkItem(issue, title, description, status, tasks)]
              /\ ctx' = [ctx EXCEPT ![p] = AgentContext(env)]
              /\ uuids' = uuids + Len(tasks)
              /\ created' = created \o [k \in 1..Len(tasks) |-> tasks[k].id]
    /\ calls' = calls + 1
    /\ pc' = [pc EXCEPT ![p] = "run_coordinator"]
    /\ UNCHANGED <<cli, registry, executor, threads, universe, prev, plan, idx, reports,
                   result, ran, lookups, raised>>

\* Variant of run_coordinator: the work item is marked Completed once the
\* coordinator has been found.
run_coordinator_marks_status(p) ==
    /\ pc[p] = "run_coordinator"
    /\ lookups' = [lookups EXCEPT ![p] = Append(@, "Coordinator")]
    /\ LET found == run_coordinator_lookup(registry)
       IN  IF found.tag = "Ok"
           THEN /\ pc' = [pc EXCEPT ![p] = "orchestrate"]
                /\ work_item' = [work_item EXCEPT ![p].status = "Completed"]
                /\ UNCHANGED result
           ELSE /\ pc' = [pc EXCEPT ![p] = "returned"]
                /\ result' = [result EXCEPT ![p] = found]
                /\ UNCHANGED work_item
    /\ UNCHANGED <<cli, registry, executor, threads, universe, uuids, calls, created, prev,
                   ctx, plan, idx, reports, ran, raised>>

\* AgentRegistry::run_coordinator up to the call of orchestrate.
run_coordinator(p) ==
    /\ pc[p] = "run_coordinator"
    /\ lookups' = [lookups EXCEPT ![p] = Append(@, "Coordinator")]
    /\ LET found == run_coordinator_lookup(registry)
       IN  IF found.tag = "Ok"
           THEN /\ pc' = [pc EXCEPT ![p] = "orchestrate"]
                /\ UNCHANGED result
           ELSE /\ pc' = [pc EXCEPT ![p] = "returned"]
                /\ result' = [result EXCEPT ![p] = found]
    /\ UNCHANGED <<cli, registry, executor, threads, universe, uuids, calls, created, prev,
                   work_item, ctx, plan, idx, reports, ran, raised>>

\* Variant of orchestrate_plan: the plan is kept in one place shared by all
\* threads of the process.
orchestrate_plan_shared(p) ==
    /\ pc[p] = "orchestrate"
    /\ LET tasks == build_plan(work_item[p], uuids)
       IN  /\ plan' = [q \in Threads |-> tasks]
           /\ uuids' = uuids + Len(tasks)
           /\ created' = created \o [k \in 1..Len(tasks) |-> tasks[k].id]
    /\ idx' = [idx EXCEPT ![p] = 1]
    /\ reports' = [reports EXCEPT ![p] = << >>]
    /\ pc' = [pc EXCEPT ![p] = "loop"]
    /\ UNCHANGED <<cli, registry, executor, threads, universe, calls, prev, work_item, ctx,
                   result, ran, lookups, raised>>

\* orchestrate: let plan = self.build_plan(work_item); let mut reports.
orchestrate_plan(p) ==
    /\ pc[p] = "orchestrate"
    /\ LET tasks == build_plan(work_item[p], uuids)
       IN  /\ plan' = [plan EXCEPT ![p] = tasks]
           /\ uuids' = uuids + Len(tasks)
           /\ created' = created \o [k \in 1..Len(tasks) |-> tasks[k].id]
    /\ idx' = [idx EXCEPT ![p] = 1]
    /\ reports' = [reports EXCEPT ![p] = << >>]
    /\ pc' = [pc EXCEPT ![p] = "loop"]
    /\ UNCHANGED <<cli, registry, executor, threads, universe, calls, prev, work_item, ctx,
                   result, ran, lookups, raised>>

\* orchestrate: one iteration of `for task in plan`, or Ok(reports) after
\* the last one.
orchestrate_step(p) ==
    /\ pc[p] = "loop"
    /\ IF idx[p] > Len(plan[p])
       THEN /\ result' = [result EXCEPT ![p] = Ok(reports[p])]
            /\ pc' = [pc EXCEPT ![p] = "returned"]
            /\ UNCHANGED <<idx, reports, ran, raised>>
       ELSE LET task == plan[p][idx[p]]
            IN  \E r \in AgentExecutor_run(executor, task, ctx[p]) :
                  LET step == orchestrate_iteration(reports[p], task, r)
                  IN  /\ ran' = [ran EXCEPT ![p] = Append(@,
                                   [task     |-> task,
                                    executor |-> orchestrate_executor(task),
                                    result   |-> r])]
                      /\ raised' = [raised EXCEPT ![p] =
                                      IF r.tag = "Err" THEN r.error ELSE @]
                      /\ reports' = [reports EXCEPT ![p] = step.reports]
                      /\ IF step.returned
                         THEN /\ result' = [result EXCEPT ![p] = step.result]
                              /\ pc' = [pc EXCEPT ![p] = "returned"]
                              /\ UNCHANGED idx
                         ELSE /\ idx' = [idx EXCEPT ![p] = orchestrate_next(@)]
                              /\ UNCHANGED <<result, pc>>
    /\ UNCHANGED <<cli, registry, executor, threads, universe, uuids, calls, created, prev,
                   work_item, ctx, plan, lookups>>

\* The caller takes the result and the call's frame is gone; the thread may
\* call again.
Finish(p) ==
    /\ pc[p] = "returned"
    /\ pc' = [pc EXCEPT ![p] = "idle"]
    /\ prev' = IF plan[p] # << >>
               THEN [set |-> TRUE, title |-> work_item[p].title, plan |-> plan[p]]
               ELSE prev
    /\ work_item' = [work_item EXCEPT ![p] = NoItem]
    /\ ctx' = [ctx EXCEPT ![p] = AgentContext(<< >>)]
    /\ plan' = [plan EXCEPT ![p] = << >>]
    /\ idx' = [idx EXCEPT ![p] = 1]
    /\ reports' = [reports EXCEPT ![p] = << >>]
    /\ result' = [result EXCEPT ![p] = Pending]
    /\ ran' = [ran EXCEPT ![p] = << >>]
    /\ lookups' = [lookups EXCEPT ![p] = << >>]
    /\ raised' = [raised EXCEPT ![p] = << >>]
    /\ UNCHANGED <<cli, registry, executor, threads, universe, uuids, calls, created>>

Next ==
    \E p \in Threads :
        \/ Call(p)
        \/ run_coordinator(p)
        \/ orchestrate_plan(p)
        \/ orchestrate_step(p)
        \/ Finish(p)

Spec == Init /\ [][Next]_vars

\* The same program with the two places the code leaves open made
\* variable: the registry may lack the Coordinator slot, and run may be any
\* implementation of the AgentExecutor contract.
InitContract ==
    /\ registry \in {AgentRegistry_new, AgentRegistry_unregistered}
    /\ executor \in ExecutorVariants
    /\ threads = {1}
    /\ universe = AllInputs
    /\ fs = EmptyProject
    /\ InitCommon

SpecContract == InitContract /\ [][Next]_vars

\* Execution is synchronous: a call that has started takes its next step.
CallFairness ==
    \A p \in Threads :
        /\ WF_vars(run_coordinator(p))
        /\ WF_vars(orchestrate_plan(p))
        /\ WF_vars(orchestrate_step(p))

SpecContractFair == SpecContract /\ CallFairness

\* Two threads of one process, each calling run_coordinator with its own
\* work item and context.
InitParallel ==
    /\ registry = AgentRegistry_new
    /\ executor = "CoordinatorAgent"
    /\ threads = Threads
    /\ universe = CommandInputs
    /\ fs = EmptyProject
    /\ InitCommon

SpecParallel == InitParallel /\ [][Next]_vars

\* ------------------------------------------------- the command line program
\* What the commands of the miyabi binary are run with: their arguments and
\* the system call that fails, if one does.
Faults == 0..8

CliInputs ==
    [titles       |-> {"Test feature"},
     descriptions |-> {"Implement test feature"},
     issues       |-> IssueNumbers,
     statuses     |-> {"InProgress"},
     environments |-> {<< >>},
     names        |-> {"demo"},
     repositories |-> {None, Some("owner/repo")},
     devices      |-> {None, Some("laptop")},
     faults       |-> Faults]

\* A project that was set up earlier: its config.toml was edited by hand,
\* its log holds one line.
ExistingLog ==
    << "{\"timestamp\":\"1969-12-31T23:59:59+00:00\",\"action\":\"INIT\",\"detail\":null}" >>

ExistingProject ==
    [dirs        |-> {DirConfig, DirLogs, DirReports},
     config_file |-> Some(<< <<"github_token", "ghp_token">>,
                             <<"project.name", "handmade">>,
                             <<"project.repository", "owner/repo">>,
                             <<"project.created_at", to_rfc3339(0)>>,
                             <<"project.device_identifier", "laptop">> >>),
     actions_log |-> Some(ExistingLog)]

\* miyabi init
cmd_init(p) ==
    /\ p \in threads
    /\ pc[p] = "idle"
    /\ calls < MaxCalls
    /\ \E name \in universe.names, repository \in universe.repositories,
          device \in universe.devices, fault \in universe.faults :
          LET made   == ProjectPaths_ensure_structure(fs, fault)
              cfg    == cmd_init_config(name, repository, device, clock)
              saved  == MiyabiConfigManager_save(made.fs, cfg, fault)
              dir    == MiyabiConfigManager_logs_dir(saved.fs, fault)
              entry  == info("init", Some("Initialized project at " \o Cwd),
                             clock + 1)
              logd   == log_action(dir.fs, entry, fault)
              last   == IF made.result.tag = "Err" THEN made
                        ELSE IF saved.result.tag = "Err" THEN saved
                        ELSE IF dir.result.tag = "Err" THEN dir
                        ELSE logd
          IN  /\ fs' = last.fs
              /\ exit' = [exit EXCEPT ![p] = last.result]
              /\ config' = [config EXCEPT ![p] =
                     IF made.result.tag = "Ok" /\ saved.result.tag = "Ok"
                     THEN [tag |-> "saved", value |-> cfg]
                     ELSE NoConfig]
              /\ logged' = IF last.result.tag = "Ok"
                           THEN Append(logged, entry) ELSE logged
    /\ clock' = clock + 2
    /\ command' = [command EXCEPT ![p] = "init"]
    /\ calls' = calls + 1
    /\ pc' = [pc EXCEPT ![p] = "exited"]
    /\ UNCHANGED <<registry, executor, threads, universe, uuids, created, prev,
                   work_item, ctx, plan, idx, reports, result, ran, lookups,
                   raised, presented>>

\* miyabi status
cmd_status(p) ==
    /\ p \in threads
    /\ pc[p] = "idle"
    /\ calls < MaxCalls
    /\ \E fault \in universe.faults :
          LET loaded == MiyabiConfigManager_load_or_init(fs, clock, fault)
          IN  /\ fs' = loaded.fs
              /\ IF loaded.result.tag = "Ok"
                 THEN /\ config' = [config EXCEPT ![p] =
                             [tag   |-> IF fs.config_file = None
                                        THEN "created" ELSE "read",
                              value |-> loaded.result.value]]
                      /\ exit' = [exit EXCEPT ![p] = Ok(<< >>)]
                 ELSE /\ exit' = [exit EXCEPT ![p] = loaded.result]
                      /\ UNCHANGED config
    /\ clock' = clock + 1
    /\ command' = [command EXCEPT ![p] = "status"]
    /\ calls' = calls + 1
    /\ pc' = [pc EXCEPT ![p] = "exited"]
    /\ UNCHANGED <<registry, executor, threads, universe, uuids, created, prev,
                   work_item, ctx, plan, idx, reports, result, ran, lookups,
                   raised, logged, presented>>

\* miyabi work-on, up to the call of run_coordinator.
cmd_work_on(p) ==
    /\ p \in threads
    /\ pc[p] = "idle"
    /\ calls < MaxCalls
    /\ \E issue \in universe.issues, title \in universe.titles,
          description \in universe.descriptions, fault \in universe.faults :
          LET loaded == MiyabiConfigManager_load_or_init(fs, clock, fault)
          IN  /\ fs' = loaded.fs
              /\ IF loaded.result.tag = "Ok"
                 THEN /\ config' = [config EXCEPT ![p] =
                             [tag   |-> IF fs.config_file = None
                                        THEN "created" ELSE "read",
                              value |-> loaded.result.value]]
                      /\ work_item' = [work_item EXCEPT ![p] =
                             WorkItem(issue, title, description,
                                      "InProgress", << >>)]
                      /\ ctx' = [ctx EXCEPT ![p] = AgentContext(
                             cmd_environment(loaded.result.value))]
                      /\ pc' = [pc EXCEPT ![p] = "run_coordinator"]
                      /\ UNCHANGED exit
                 ELSE /\ exit' = [exit EXCEPT ![p] = loaded.result]
                      /\ pc' = [pc EXCEPT ![p] = "exited"]
                      /\ UNCHANGED <<config, work_item, ctx>>
    /\ clock' = clock + 1
    /\ command' = [command EXCEPT ![p] = "work_on"]
    /\ calls' = calls + 1
    /\ UNCHANGED <<registry, executor, threads, universe, uuids, created, prev,
                   plan, idx, reports, result, ran, lookups, raised, logged,
                   presented>>

\* miyabi agent run coordinator, up to the call of run_coordinator.
cmd_agent(p) ==
    /\ p \in threads
    /\ pc[p] = "idle"
    /\ calls < MaxCalls
    /\ \E title \in universe.titles, description \in universe.descriptions,
          fault \in universe.faults :
          LET loaded == MiyabiConfigManager_load_or_init(fs, clock, fault)
              task   == cmd_agent_task(title, description, uuids)
          IN  /\ fs' = loaded.fs
              /\ IF loaded.result.tag = "Ok"
                 THEN /\ config' = [config EXCEPT ![p] =
                             [tag   |-> IF fs.config_file = None
                                        THEN "created" ELSE "read",
                              value |-> loaded.result.value]]
                      /\ work_item' = [work_item EXCEPT ![p] =
                             WorkItem(None, title, description,
                                      "InProgress", << task >>)]
                      /\ ctx' = [ctx EXCEPT ![p] = AgentContext(
                             cmd_environment(loaded.result.value))]
                      /\ uuids' = uuids + 1
                      /\ created' = Append(created, task.id)
                      /\ pc' = [pc EXCEPT ![p] = "run_coordinator"]
                      /\ UNCHANGED exit
                 ELSE /\ exit' = [exit EXCEPT ![p] = loaded.result]
                      /\ pc' = [pc EXCEPT ![p] = "exited"]
                      /\ UNCHANGED <<config, work_item, ctx, uuids, created>>
    /\ clock' = clock + 1
    /\ command' = [command EXCEPT ![p] = "agent"]
    /\ calls' = calls + 1
    /\ UNCHANGED <<registry, executor, threads, universe, prev, plan, idx,
                   reports, result, ran, lookups, raised, logged, presented>>

\* Variant of cmd_reports: an error of run_coordinator is dropped and the
\* command goes on with no reports.
cmd_reports_unchecked(p) ==
    /\ pc[p] = "returned"
    /\ command[p] \in {"work_on", "agent"}
    /\ presented' = [presented EXCEPT ![p] = cmd_report_lines(result[p].value)]
    /\ IF command[p] = "work_on"
       THEN /\ pc' = [pc EXCEPT ![p] = "log"]
            /\ UNCHANGED exit
       ELSE /\ pc' = [pc EXCEPT ![p] = "exited"]
            /\ exit' = [exit EXCEPT ![p] = Ok(<< >>)]
    /\ UNCHANGED <<registry, executor, threads, universe, uuids, calls, created,
                   prev, work_item, ctx, plan, idx, reports, result, ran,
                   lookups, raised, fs, clock, logged, command, config>>

\* work-on and agent run after run_coordinator has returned: the `?`, then
\* the reports are printed.
cmd_reports(p) ==
    /\ pc[p] = "returned"
    /\ command[p] \in {"work_on", "agent"}
    /\ IF result[p].tag = "Err"
       THEN /\ exit' = [exit EXCEPT ![p] = result[p]]
            /\ pc' = [pc EXCEPT ![p] = "exited"]
            /\ UNCHANGED presented
       ELSE /\ presented' = [presented EXCEPT ![p] =
                                cmd_report_lines(result[p].value)]
            /\ IF command[p] = "work_on"
               THEN /\ pc' = [pc EXCEPT ![p] = "log"]
                    /\ UNCHANGED exit
               ELSE /\ pc' = [pc EXCEPT ![p] = "exited"]
                    /\ exit' = [exit EXCEPT ![p] = Ok(<< >>)]
    /\ UNCHANGED <<registry, executor, threads, universe, uuids, calls, created,
                   prev, work_item, ctx, plan, idx, reports, result, ran,
                   lookups, raised, fs, clock, logged, command, config>>

\* work-on: logs_dir, then log_action(logs_dir, info("work_on", ...)).
cmd_work_on_log(p) ==
    /\ pc[p] = "log"
    /\ \E fault \in universe.faults :
          LET dir   == MiyabiConfigManager_logs_dir(fs, fault)
              entry == info("work_on",
                            Some(cmd_work_on_detail(work_item[p],
                                                    result[p].value)),
                            clock)
              logd  == log_action(dir.fs, entry, fault)
              last  == IF dir.result.tag = "Err" THEN dir ELSE logd
          IN  /\ fs' = last.fs
              /\ exit' = [exit EXCEPT ![p] = last.result]
              /\ logged' = IF last.result.tag = "Ok"
                           THEN Append(logged, entry) ELSE logged
    /\ clock' = clock + 1
    /\ pc' = [pc EXCEPT ![p] = "exited"]
    /\ UNCHANGED <<registry, executor, threads, universe, uuids, calls, created,
                   prev, work_item, ctx, plan, idx, reports, result, ran,
                   lookups, raised, command, config, presented>>

\* The process of the command ends; the next command starts from the files
\* it left.
Exit(p) ==
    /\ pc[p] = "exited"
    /\ pc' = [pc EXCEPT ![p] = "idle"]
    /\ command' = [command EXCEPT ![p] = "none"]
    /\ config' = [config EXCEPT ![p] = NoConfig]
    /\ presented' = [presented EXCEPT ![p] = << >>]
    /\ exit' = [exit EXCEPT ![p] = Pending]
    /\ work_item' = [work_item EXCEPT ![p] = NoItem]
    /\ ctx' = [ctx EXCEPT ![p] = AgentContext(<< >>)]
    /\ plan' = [plan EXCEPT ![p] = << >>]
    /\ idx' = [idx EXCEPT ![p] = 1]
    /\ reports' = [reports EXCEPT ![p] = << >>]
    /\ result' = [result EXCEPT ![p] = Pending]
    /\ ran' = [ran EXCEPT ![p] = << >>]
    /\ lookups' = [lookups EXCEPT ![p] = << >>]
    /\ raised' = [raised EXCEPT ![p] = << >>]
    /\ UNCHANGED <<registry, executor, threads, universe, uuids, calls, created,
                   prev, fs, clock, logged>>

NextCli ==
    \E p \in Threads :
        \/ cmd_init(p)
        \/ cmd_status(p)
        \/ cmd_work_on(p)
        \/ cmd_agent(p)
        \/ run_coordinator(p)
        \/ orchestrate_plan(p)
        \/ orchestrate_step(p)
        \/ cmd_reports(p)
        \/ cmd_work_on_log(p)
        \/ Exit(p)

\* The miyabi binary run in a directory that is empty or holds a project.
\* Each command builds the registry with AgentRegistry::new; run may be any
\* implementation of the AgentExecutor contract.
InitCli ==
    /\ registry = AgentRegistry_new
    /\ executor \in ExecutorVariants
    /\ threads = {1}
    /\ universe = CliInputs
    /\ fs \in {EmptyProject, ExistingProject}
    /\ InitCommon

SpecCli == InitCli /\ [][NextCli]_vars

TypeOK ==
    /\ uuids \in Nat
    /\ calls \in 0..MaxCalls
    /\ \A p \in Threads :
         /\ pc[p] \in {"idle", "run_coordinator", "orchestrate", "loop", "returned",
                      "log", "exited"}
         /\ exit[p].tag \in {"Pending", "Ok", "Err"}
         /\ config[p].tag \in {"none", "read", "created", "saved"}
         /\ result[p].tag \in {"Pending", "Ok", "Err"}
         /\ idx[p] \in 1..(Len(plan[p]) + 1)
         /\ Len(reports[p]) <= Len(plan[p])

\* ------------------------------------------------------------------ helpers
\* s contains t verbatim (t is a contiguous part of s).
Contains(s, t) ==
    \E i \in 1..(Len(s) - Len(t) + 1) : SubSeq(s, i, i + Len(t) - 1) = t

\* The call of thread p has returned Ok(reports).
Succeeded(p) == pc[p] = "returned" /\ result[p].tag = "Ok"

\* The call of thread p has returned an error.
Failed(p) == pc[p] = "returned" /\ result[p].tag = "Err"

Ids(tasks) == {tasks[k].id : k \in 1..Len(tasks)}

\* ------------------------------------------------------------------- claims

\* C1: for every work item, build_plan returns exactly 4 tasks whose agent
\* kinds are, in order, Issue, CodeGen, Test, Review and whose priorities
\* are, in order, High, High, Medium, Medium.
C1_PlanShape ==
    \A p \in Threads :
        pc[p] \in {"loop", "returned"} =>
            /\ Len(plan[p]) = 4
            /\ [k \in 1..4 |-> plan[p][k].agent]
                   = <<"Issue", "CodeGen", "Test", "Review">>
            /\ [k \in 1..4 |-> plan[p][k].priority]
                   = <<"High", "High", "Medium", "Medium">>

\* A plan built for a work item that carries an issue number, a task of its
\* own and the status Failed.
C1_Witness ==
    \E p \in Threads :
        /\ pc[p] = "loop"
        /\ Len(plan[p]) = 4
        /\ work_item[p].tasks # << >>
        /\ work_item[p].issue_number = Some(42)
        /\ work_item[p].status = "Failed"

\* C2: a successful orchestrate returns exactly one report per task of the
\* plan, the i-th report holding the i-th task of the plan (insertion
\* order, not priority order), and every outcome has success = true.
C2_ReportsFollowPlan ==
    \A p \in Threads :
        Succeeded(p) =>
            /\ Len(result[p].value) = Len(plan[p])
            /\ \A i \in 1..Len(plan[p]) :
                 /\ result[p].value[i].task = plan[p][i]
                 /\ result[p].value[i].outcome.success = TRUE

\* A call that returned four reports.
C2_Witness ==
    \E p \in Threads :
        /\ Succeeded(p)
        /\ Len(result[p].value) = 4
        /\ result[p].value[4].task.agent = "Review"

\* C3: in every report collected or returned by orchestrate, and in every
\* outcome built by success_outcome or failure_outcome, outcome.task_id is
\* the id of the task it was produced from, and of no other task of the
\* plan.
C3_OutcomeBelongsToTask ==
    \A p \in Threads :
        /\ \A k \in 1..Len(ran[p]) :
             ran[p][k].result.tag = "Ok" =>
                 ran[p][k].result.value.task_id = ran[p][k].task.id
        /\ \A i \in 1..Len(reports[p]) :
             /\ reports[p][i].outcome.task_id = reports[p][i].task.id
             /\ \A j \in 1..Len(plan[p]) :
                  j # i => reports[p][i].outcome.task_id # plan[p][j].id
        /\ Succeeded(p) =>
             \A i \in 1..Len(result[p].value) :
                 result[p].value[i].outcome.task_id = result[p].value[i].task.id

\* A returned list of reports that holds an outcome of each constructor.
C3_Witness ==
    \E p \in Threads :
        /\ Succeeded(p)
        /\ Len(result[p].value) = 4
        /\ \E i, j \in 1..4 :
             /\ result[p].value[i].outcome.success = TRUE
             /\ result[p].value[j].outcome.success = FALSE

\* C4: every task created by build_plan gets a freshly generated id: no two
\* tasks of one plan share an id, no id is used twice across the calls of
\* the process, and the id of each task is the one its AgentTask::new
\* placeholder drew from the generator.
C4_FreshIds ==
    /\ \A i, j \in 1..Len(created) : i # j => created[i] # created[j]
    /\ \A p \in Threads :
         /\ \A i, j \in 1..Len(plan[p]) :
              i # j => plan[p][i].id # plan[p][j].id
         /\ Ids(plan[p]) \subseteq 1..uuids
         /\ Ids(plan[p]) \cap Ids(work_item[p].tasks) = {}
         /\ prev.set => Ids(plan[p]) \cap Ids(prev.plan) = {}

\* The plan of a second call, built after an earlier plan and a task of
\* the user.
C4_Witness ==
    \E p \in Threads :
        /\ pc[p] = "loop"
        /\ prev.set
        /\ work_item[p].tasks # << >>
        /\ Len(plan[p]) = 4
        /\ Len(created) >= 9

\* C5: if run fails on the k-th task, orchestrate stops at once: no later
\* task is run, the call returns an error and none of the k-1 reports
\* collected so far; a call returns the full list of reports or an error,
\* never a partial list.
C5_FailFast ==
    \A p \in Threads :
        /\ \A k \in 1..Len(ran[p]) :
             ran[p][k].result.tag = "Err" =>
                 /\ k = Len(ran[p])
                 /\ Failed(p)
                 /\ result[p].value = << >>
        /\ Succeeded(p) => Len(result[p].value) = Len(plan[p])
        /\ \A k \in 1..Len(ran[p]) : ran[p][k].task = plan[p][k]

\* run failed on the third task, after two reports had been collected.
C5_Witness ==
    \E p \in Threads :
        /\ Failed(p)
        /\ Len(ran[p]) = 3
        /\ ran[p][1].result.tag = "Ok"
        /\ ran[p][2].result.tag = "Ok"
        /\ ran[p][3].result.tag = "Err"

\* C6: after AgentRegistry::new the Coordinator slot is present, so
\* run_coordinator never returns the "not registered" error; on a registry
\* without the Coordinator slot run_coordinator returns that error as an
\* ordinary Err, builds no plan and runs no task.
C6_RegistryLookup ==
    /\ "Coordinator" \in DOMAIN AgentRegistry_new
    /\ \A p \in Threads :
         /\ registry = AgentRegistry_new =>
              result[p].error # anyhow("Coordinator agent not registered")
         /\ ("Coordinator" \notin DOMAIN registry /\ pc[p] # "idle") =>
              /\ pc[p] \in {"run_coordinator", "returned"}
              /\ plan[p] = << >>
              /\ ran[p] = << >>
              /\ pc[p] = "returned" =>
                   result[p] = Err(anyhow("Coordinator agent not registered"))

\* run_coordinator has returned on a registry without the Coordinator slot.
C6_Witness ==
    \E p \in Threads :
        /\ "Coordinator" \notin DOMAIN registry
        /\ Failed(p)
        /\ lookups[p] = <<"Coordinator">>

\* C7: the titles of the tasks in the reports returned by orchestrate are,
\* in order, "Analyze issue context", "Implement solution", "Run
\* verification suite", "Review code changes"; no returned task has one of
\* the strings passed to AgentTask::new as its title or description.
PlaceholderTexts == {"analyze", "codegen", "test", "review"}

C7_ReportTitles ==
    \A p \in Threads :
        Succeeded(p) =>
            /\ [i \in 1..Len(result[p].value) |-> result[p].value[i].task.title]
                   = <<"Analyze issue context", "Implement solution",
                       "Run verification suite", "Review code changes">>
            /\ \A i \in 1..Len(result[p].value) :
                 /\ result[p].value[i].task.title \notin PlaceholderTexts
                 /\ result[p].value[i].task.description \notin PlaceholderTexts

\* Reports returned for a work item whose own title and description are
\* placeholder strings.
C7_Witness ==
    \E p \in Threads :
        /\ Succeeded(p)
        /\ Len(result[p].value) = 4
        /\ work_item[p].title = "analyze"
        /\ work_item[p].description = "codegen"

\* C8: the description of the first task of the plan contains the work
\* item's title verbatim, and the work item affects the plan nowhere else:
\* the plans of two work items differ at most in the description of the
\* first task (which differs exactly when the titles differ) and in the ids.
WithoutId(task) ==
    [title       |-> task.title,
     description |-> task.description,
     agent       |-> task.agent,
     priority    |-> task.priority]

C8_TitleInterpolation ==
    \A p \in Threads :
        pc[p] \in {"loop", "returned"} =>
            /\ Contains(plan[p][1].description, work_item[p].title)
            /\ prev.set =>
                 /\ Len(plan[p]) = Len(prev.plan)
                 /\ \A k \in 2..Len(plan[p]) :
                      WithoutId(plan[p][k]) = WithoutId(prev.plan[k])
                 /\ [WithoutId(plan[p][1]) EXCEPT !.description = ""]
                      = [WithoutId(prev.plan[1]) EXCEPT !.description = ""]
                 /\ (plan[p][1].description = prev.plan[1].description)
                      <=> (work_item[p].title = prev.title)

\* The plan of a call whose work item has another title than the work item
\* of the call before, and a title with quote and brace characters.
C8_Witness ==
    \E p \in Threads :
        /\ pc[p] = "loop"
        /\ prev.set
        /\ prev.title = "Test feature"
        /\ work_item[p].title = "it's {}"
        /\ Len(plan[p]) = 4

C10_SelfDispatch ==
    \A p \in Threads :
        /\ \A k \in 1..Len(ran[p]) :
             /\ ran[p][k].task = plan[p][k]
             /\ ran[p][k].executor = CoordinatorAgent_kind
             /\ ran[p][k].task.agent # ran[p][k].executor
             /\ ran[p][k].result =
                  Ok(success_outcome(ran[p][k].task,
                         "Task queued for specialist agents (simulated)"))
        /\ \A i \in 1..Len(reports[p]) :
             reports[p][i].outcome.summary
                 = "Task queued for specialist agents (simulated)"
        /\ lookups[p] \in {<< >>, <<"Coordinator">>}
        /\ Succeeded(p) =>
             /\ Len(ran[p]) = Len(plan[p])
             /\ \A i \in 1..Len(result[p].value) :
                  result[p].value[i].outcome.summary
                      = "Task queued for specialist agents (simulated)"

\* A call that has run the four tasks, of kinds Issue, CodeGen, Test and
\* Review, and returned.
C10_Witness ==
    \E p \in Threads :
        /\ Succeeded(p)
        /\ Len(ran[p]) = 4
        /\ {ran[p][k].task.agent : k \in 1..4}
               = {"Issue", "CodeGen", "Test", "Review"}

\* C11: within one orchestrate call each task of the plan is passed to run
\* at most once and, if the call succeeds, exactly once; tasks are run in
\* plan order one at a time (task i+1 starts only after the outcome of task
\* i is recorded), with no retry and no skip; and every call eventually
\* ends, with the full list of reports or with an error.
C11_PipelineOrder ==
    \A p \in Threads :
        /\ Len(ran[p]) <= Len(plan[p])
        /\ \A k \in 1..Len(ran[p]) : ran[p][k].task = plan[p][k]
        /\ \A i, j \in 1..Len(ran[p]) :
             i # j => ran[p][i].task.id # ran[p][j].task.id
        /\ pc[p] = "loop" =>
             /\ Len(reports[p]) = Len(ran[p])
             /\ idx[p] = Len(ran[p]) + 1
        /\ Succeeded(p) =>
             /\ Len(ran[p]) = Len(plan[p])
             /\ Len(result[p].value) = Len(plan[p])
             /\ \A k \in 1..Len(ran[p]) : ran[p][k].result.tag = "Ok"
        /\ pc[p] = "returned" => (Succeeded(p) \/ Failed(p))

C11_LinearPipeline ==
    /\ []C11_PipelineOrder
    /\ \A p \in Threads : (pc[p] = "run_coordinator") ~> (pc[p] = "returned")

\* A call that ran its four tasks and returned the full list of reports.
C11_Witness ==
    \E p \in Threads :
        /\ Succeeded(p)
        /\ Len(ran[p]) = 4
        /\ Len(result[p].value) = 4
        /\ [k \in 1..4 |-> ran[p][k].task.id] = [k \in 1..4 |-> plan[p][k].id]

\* C12: orchestrate and run_coordinator leave their inputs unchanged: from
\* the call to its return, whether it succeeds or fails, every field of the
\* work item (its status in particular, which nothing moves to Completed or
\* Failed) and the environment of the context stay as the caller passed
\* them.
InCall(p) == pc[p] \in {"run_coordinator", "orchestrate", "loop"}

C12_InputsUnchanged ==
    [][\A p \in Threads :
          InCall(p) => /\ work_item'[p] = work_item[p]
                       /\ ctx'[p] = ctx[p]]_vars

\* A call that failed and a work item that is still Pending, with a
\* non-empty environment.
C12_Witness ==
    \E p \in Threads :
        /\ Failed(p)
        /\ raised[p] # << >>
        /\ work_item[p].status = "Pending"
        /\ work_item[p].title = "Test feature"
        /\ ctx[p].environment # << >>

\* C14: the work item's list of pre-existing tasks is not used by the
\* plan: whatever work_item.tasks holds, build_plan and orchestrate return
\* the same four tasks, and no task of work_item.tasks (such as the task
\* `agent run` places there) is passed to run or appears in a report.
PlanOf(item) == [k \in 1..4 |-> WithoutId(build_plan(item, 0)[k])]

C14_OwnTasksUnused ==
    \A p \in Threads :
        /\ pc[p] \in {"loop", "returned"} =>
             [k \in 1..Len(plan[p]) |-> WithoutId(plan[p][k])]
                 = PlanOf([work_item[p] EXCEPT !.tasks = << >>])
        /\ \A t \in 1..Len(work_item[p].tasks) :
             /\ \A k \in 1..Len(plan[p]) :
                  /\ plan[p][k] # work_item[p].tasks[t]
                  /\ plan[p][k].id # work_item[p].tasks[t].id
             /\ \A k \in 1..Len(ran[p]) :
                  ran[p][k].task.id # work_item[p].tasks[t].id
             /\ \A i \in 1..Len(reports[p]) :
                  /\ reports[p][i].task.id # work_item[p].tasks[t].id
                  /\ reports[p][i].outcome.task_id # work_item[p].tasks[t].id
        /\ Succeeded(p) => Len(result[p].value) = 4

\* Four reports returned for a work item that carries the task of
\* `agent run`.
C14_Witness ==
    \E p \in Threads :
        /\ Succeeded(p)
        /\ Len(work_item[p].tasks) = 1
        /\ work_item[p].tasks[1].agent = "Coordinator"
        /\ work_item[p].tasks[1].title = work_item[p].title
        /\ Len(result[p].value) = 4

\* C13: two orchestrations running in parallel on their own work items and
\* contexts do not interfere: under every interleaving each call returns
\* the reports it returns when run alone (kinds, titles, descriptions,
\* priorities, success flags, summaries, task_id = task.id), no task id is
\* shared between the two calls, and no step changes the registry or the
\* executor, the only state the threads have in common.
ReportsAlone(item) ==
    [k \in 1..4 |->
        [task    |-> PlanOf(item)[k],
         success |-> TRUE,
         summary |-> "Task queued for specialist agents (simulated)"]]

C13_NoInterference ==
    /\ \A p \in Threads :
         /\ \A k \in 1..Len(ran[p]) : ran[p][k].task = plan[p][k]
         /\ \A i \in 1..Len(reports[p]) :
              /\ reports[p][i].task = plan[p][i]
              /\ reports[p][i].outcome.task_id = plan[p][i].id
         /\ Succeeded(p) =>
              /\ [i \in 1..Len(result[p].value) |->
                     [task    |-> WithoutId(result[p].value[i].task),
                      success |-> result[p].value[i].outcome.success,
                      summary |-> result[p].value[i].outcome.summary]]
                   = ReportsAlone(work_item[p])
              /\ \A i \in 1..Len(result[p].value) :
                   result[p].value[i].outcome.task_id
                       = result[p].value[i].task.id
    /\ \A p, q \in Threads :
         p # q => Ids(plan[p]) \cap Ids(plan[q]) = {}
    /\ \A i, j \in 1..Len(created) : i # j => created[i] # created[j]

C13_ParallelCalls ==
    /\ []C13_NoInterference
    /\ [][registry' = registry /\ executor' = executor]_vars

\* One call has returned its four reports while the call of the other
\* thread, for a work item with another title, is between its second and
\* third task.
C13_Witness ==
    \E p, q \in Threads :
        /\ p # q
        /\ Succeeded(p)
        /\ Len(result[p].value) = 4
        /\ pc[q] = "loop"
        /\ Len(ran[q]) = 2
        /\ work_item[p].title # work_item[q].title
        /\ \E k \in 1..4 : plan[p][k].id > plan[q][1].id

\* The lines of actions.log; none while the file does not exist.
LogLines(files) ==
    IF files.actions_log = None THEN << >> ELSE files.actions_log[1]

\* ---- C15 ----------------------------------------------------------------
\* A step of work-on that adds a line to actions.log is taken only when
\* run_coordinator has returned Ok and two lines have been printed for each
\* of its reports, title and summary in report order; the line added is a
\* WORK_ON entry whose task count is the number of reports returned.
C15_LogAfterReports ==
    [][\A p \in Threads :
          (command[p] = "work_on" /\ LogLines(fs') # LogLines(fs)) =>
              LET reps == result[p].value
                  line == LogLines(fs')[Len(LogLines(fs'))]
              IN  /\ pc[p] = "log"
                  /\ result[p].tag = "Ok"
                  /\ Len(presented[p]) = 2 * Len(reps)
                  /\ \A k \in 1..Len(reps) :
                       /\ Contains(presented[p][2 * k - 1], reps[k].task.title)
                       /\ Contains(presented[p][2 * k], reps[k].outcome.summary)
                  /\ Contains(line, "\"action\":\"WORK_ON\"")
                  /\ Contains(line, "handled with "
                                       \o u64_to_string(Len(reps)) \o " tasks\"")
      ]_vars

\* Once run_coordinator has returned an error to work-on, no step prints a
\* report or changes actions.log, and the command ends with that error.
C15_ErrorEndsCommand ==
    [][\A p \in Threads :
          (command[p] = "work_on" /\ result[p].tag = "Err") =>
              /\ LogLines(fs') = LogLines(fs)
              /\ presented'[p] = << >>
              /\ pc[p] = "returned" =>
                     (pc'[p] = "exited" /\ exit'[p] = result[p])
      ]_vars

\* C15: in work-on the WORK_ON entry is written only after orchestration
\* has completed and its reports have been presented, with the number of
\* reports as its task count; an error of run_coordinator ends the command
\* with that error, with no report presented and no entry written.
C15_WorkOnLog == C15_LogAfterReports /\ C15_ErrorEndsCommand

\* work-on has ended well: eight lines were printed for four reports and
\* the last line of the log is its WORK_ON entry.
C15_Witness ==
    \E p \in Threads :
        /\ command[p] = "work_on"
        /\ pc[p] = "exited"
        /\ exit[p].tag = "Ok"
        /\ Len(result[p].value) = 4
        /\ Len(presented[p]) = 8
        /\ Contains(LogLines(fs)[Len(LogLines(fs))], "with 4 tasks")

\* ---- C16 ----------------------------------------------------------------
\* The step in which a command's load_or_init succeeds.  When config.toml
\* existed the project directory is left as it was and the configuration
\* returned is the one the file holds; otherwise the three directories
\* exist afterwards, and the configuration returned is the default one
\* (name miyabi-project, no repository, no token, created now) and is what
\* config.toml holds.
C16_LoadStep ==
    [][\A p \in Threads :
          (config[p].tag = "none" /\ config'[p].tag \in {"read", "created"}) =>
              LET cfg == config'[p].value
              IN  IF fs.config_file # None
                  THEN /\ config'[p].tag = "read"
                       /\ fs' = fs
                       /\ toml_from_str(fs.config_file[1]) = Ok(cfg)
                  ELSE /\ config'[p].tag = "created"
                       /\ {DirConfig, DirLogs, DirReports} \subseteq fs'.dirs
                       /\ cfg.project.name = "miyabi-project"
                       /\ cfg.project.repository = None
                       /\ cfg.project.created_at = clock
                       /\ cfg.github_token = None
                       /\ fs'.config_file # None
                       /\ toml_from_str(fs'.config_file[1]) = Ok(cfg)
      ]_vars

\* While a command holds a configuration it loaded, created or saved,
\* config.toml exists and one more load_or_init returns that configuration
\* and changes nothing on disk.
C16_Reload ==
    \A p \in Threads :
        config[p].tag # "none" =>
            LET again == MiyabiConfigManager_load_or_init(fs, clock, 0)
            IN  /\ fs.config_file # None
                /\ again.result = Ok(config[p].value)
                /\ again.fs = fs

\* C16: load_or_init returns the stored configuration and leaves the file
\* unchanged when config.toml exists, and otherwise creates the three
\* directories, writes the default configuration and returns it; after a
\* successful load_or_init the file exists, a second load_or_init returns
\* the same configuration, and load_or_init after save(c) returns c.
C16_LoadOrInit == C16_LoadStep /\ []C16_Reload

\* A command has read back the configuration an earlier init saved, with
\* the repository and the device given on the command line.
C16_Witness ==
    \E p \in Threads :
        /\ config[p].tag = "read"
        /\ config[p].value.project.name = "demo"
        /\ config[p].value.project.repository = Some("owner/repo")
        /\ config[p].value.project.device_identifier = "laptop"
        /\ config[p].value.github_token = None

\* ---- C17 ----------------------------------------------------------------
\* A step in which log_action succeeds puts exactly one line, the text of
\* its entry, after the lines actions.log held, which stay as they were;
\* every other step leaves the lines of the file alone.
C17_AppendStep ==
    [][IF logged' # logged
       THEN /\ Len(logged') = Len(logged) + 1
            /\ SubSeq(logged', 1, Len(logged)) = logged
            /\ Len(LogLines(fs')) = Len(LogLines(fs)) + 1
            /\ SubSeq(LogLines(fs'), 1, Len(LogLines(fs))) = LogLines(fs)
            /\ LogLines(fs')[Len(LogLines(fs'))]
                   = serde_json_to_string(logged'[Len(logged')])
       ELSE LogLines(fs') = LogLines(fs)
      ]_vars

\* After n successful calls the file holds what it held at the start and
\* then the n entries in call order (their timestamps increase); the action
\* of every entry is the upper-case form of the name given to info.
C17_LogHoldsEntries ==
    /\ \E held \in {<< >>, ExistingLog} :
          LogLines(fs) = held \o [k \in 1..Len(logged) |->
                                    serde_json_to_string(logged[k])]
    /\ \A i, j \in 1..Len(logged) :
          i < j => parse_rfc3339(logged[i].timestamp)[1]
                       < parse_rfc3339(logged[j].timestamp)[1]
    /\ \A k \in 1..Len(logged) :
          /\ logged[k].action \in {"INIT", "WORK_ON"}
          /\ Contains(LogLines(fs)[Len(LogLines(fs)) - Len(logged) + k],
                      "\"action\":\"" \o logged[k].action \o "\"")

\* C17: the action log is append-only: each successful log_action adds one
\* line at the end and leaves the earlier lines unchanged and in order, so
\* after n successful calls the file holds the n entries in call order after
\* what it held before; the action name of an entry built by info is
\* upper-cased.
C17_AppendOnly == C17_AppendStep /\ []C17_LogHoldsEntries

\* init and then work-on have each logged their entry after the line the
\* file held before.
C17_Witness ==
    /\ Len(logged) = 2
    /\ logged[1].action = "INIT"
    /\ logged[2].action = "WORK_ON"
    /\ Len(LogLines(fs)) = 3
    /\ LogLines(fs)[1] = ExistingLog[1]

====
